---- MODULE Spec2Model ----
(***************************************************************************)
(* The gateway core of trino_mcp: one TrinoClient (trino_client.py) shared *)
(* by the protocol handlers (tools/__init__.py, resources/__init__.py) and *)
(* by the /api/query thread (server.py).  A call is a sequence of steps of *)
(* TrinoClient.execute_query; the engine's answers (open, close, USE and   *)
(* query success or failure) are nondeterministic.  The handlers' return    *)
(* values, the process's startup and shutdown (SpecLife) and the result    *)
(* formatting of the execute_query tool (SpecPreview) are followed too.    *)
(***************************************************************************)
EXTENDS Integers, Sequences, FiniteSets, TLC

\* ---------------------------------------------------------------- bounds
\* Number of connections that may be live (open, or closed and still
\* referenced by a cursor) at the same time.
MaxConns == 2
\* Largest number of rows and of columns of a query result.
MaxRows == 21
MaxCols == 2

\* ------------------------------------------------------------ value sets
\* A falsy catalog / schema argument (None or the empty string).
NoCat == "none"
Catalogs == {"c1", "c2"}
NoSchema == "none"
Schemas == {"s1"}
\* The schema names of the runs that follow the session state alone.
MoreSchemas == {"s1", "s2"}
\* self.conn = None
NoConn == 0
ConnIds == 1..MaxConns
\* The two execution contexts of server.py: the protocol runtime's thread
\* and the health/API thread started in main.
Threads == {"mcp", "api"}
\* SQL texts a caller may pass to the execute_query tool.
UserSql == {"SELECT 1"}
\* The handlers, named after what they serve: the tools execute_query,
\* cancel_query and inspect_table, and the resources for the catalog list,
\* the schema list, the table list, the column list and the table details
\* run on the protocol runtime's thread, /api/query on the API thread.
ToolOps == {"execute", "cancel", "inspect"}
ResourceOps == {"catalogs", "schemas", "tables", "columns", "table"}
Ops(t) == IF t = "api" THEN {"query"} ELSE ToolOps \cup ResourceOps

VARIABLES
    phase,            \* "constructed" | "running", then how shutdown ended
    conn,             \* TrinoClient.conn: NoConn or a connection id
    current_catalog,  \* TrinoClient.current_catalog
    current_schema,   \* TrinoClient.current_schema
    config_catalog,   \* TrinoConfig.catalog (self.config.catalog)
    config_schema,    \* TrinoConfig.schema
    default_catalog,  \* value of config.catalog at construction
    default_schema,   \* value of config.schema at construction
    conns,            \* the engine's view of each connection id
    th,               \* per thread: position and locals of the running call
    serialized,       \* TRUE: handlers run one at a time; fixed at Init
    hist,             \* history of the serialized run, see NoHistory
    main_conn,        \* the connection of the client constructed in main
    healthy,          \* app_context_global is set and its is_healthy is True
    result,           \* a TrinoQueryResult handed to the result formatting
    payload,          \* what the execute_query tool made of result
    engine_catalogs,  \* the rows the engine answers SHOW CATALOGS with
    response,         \* what /api/query made of result
    inspect_in,       \* a table's arguments and the engine's answers about it
    inspect_out,      \* what a table metadata handler returned for inspect_in
    schema_names      \* the schemas callers of execute_query name; fixed at Init

vars == <<phase, conn, current_catalog, current_schema, config_catalog,
          config_schema, default_catalog, default_schema, conns, th,
          serialized, hist, main_conn, healthy, result, payload,
          engine_catalogs, response, inspect_in, inspect_out, schema_names>>

client == <<conn, current_catalog, current_schema, config_catalog>>
\* What the steps of a call leave alone besides the client.
shaping == <<response, inspect_in, inspect_out>>
process == <<main_conn, healthy, result, payload, engine_catalogs, shaping,
             schema_names>>
frame == <<phase, config_schema, default_catalog, default_schema, serialized,
           process>>

\* ---------------------------------------------------------------- helpers
Cap2(n) == IF n >= 2 THEN 2 ELSE n

\* No caller SQL has been submitted yet.
NoSubmission == "nosub"

\* Query identifiers the engine hands out (cursor.stats["queryId"]).
QueryIds == {"q1", "q2"}
NoQueryId == "none"

\* What a handler gave back to its caller: the keys of the object it returned
\* (none when it raised), the value under "success" and under "query".
NoOutcome ==
    [raised |-> FALSE, keys |-> {}, success |-> "none", query |-> "none",
     query_id |-> "none", error |-> "none", list |-> <<>>]

\* A result without columns and rows (cursor.description is None).
EmptyResult == [columns |-> <<>>, rows |-> <<>>, row_count |-> 0]
\* The execute_query tool has formatted nothing yet.
\* /api/query has not shaped a result.
NoResponse == [shaped |-> FALSE, rows |-> <<>>, row_count |-> 0]

\* No table is being looked at, and no metadata handler has returned.
NoInspectInput ==
    [catalog |-> NoCat, schema |-> NoSchema, table |-> "none",
     describe |-> [failed |-> FALSE, rows |-> <<>>],
     stats |-> [failed |-> FALSE, columns |-> <<>>, rows |-> <<>>],
     info |-> [failed |-> FALSE, rows |-> <<>>]]
NoInspectOutput == [op |-> "none", raised |-> FALSE, value |-> <<>>]

NoPayload ==
    [formatted |-> FALSE, columns |-> <<>>, row_count |-> 0,
     preview_rows |-> <<>>]

IdleThread ==
    [pc |-> "idle", op |-> "none", sql |-> "none", catalog |-> NoCat,
     stage |-> 1, subs |-> 0, late |-> FALSE, out |-> NoOutcome,
     qid |-> NoQueryId, events |-> <<>>, use_schema |-> NoSchema,
     schema |-> NoSchema, use_catalog |-> NoCat, cursor |-> NoConn,
     res |-> "none", sub_cat |-> NoSubmission, sub_sql |-> "none",
     use_named |-> NoCat, use_cat |-> NoCat, use_failed |-> FALSE, close_failed |-> FALSE, tried_open |-> FALSE,
     cur0 |-> NoCat, unbound0 |-> FALSE, prev_req |-> NoSubmission,
     prev_cat |-> NoSubmission, closes |-> 0, opens |-> 0]

\* History kept while handlers run one at a time: the closes and opens since
\* the last submission of caller SQL, the catalog argument of the call that
\* submitted last, the catalog of the connection it was submitted on, and
\* the query id the execute_query tool returned last, and the catalog list
\* the last read of the catalog list returned.
NoHistory ==
    [closes |-> 0, opens |-> 0, req |-> NoSubmission, cat |-> NoSubmission,
     qid |-> NoQueryId, listed |-> [seen |-> FALSE, list |-> <<>>]]

Record(h) == hist' = IF serialized THEN h ELSE hist
\* An observation v that is kept only while handlers run one at a time.
Ser(v, unseen) == IF serialized THEN v ELSE unseen
Closed(h) == [h EXCEPT !.closes = Cap2(@ + 1)]
Opened(h) == [h EXCEPT !.opens = Cap2(@ + 1)]

AllIdle == \A t \in Threads : th[t].pc = "idle"

\* A connection as the engine sees it: the catalog connection parameter it
\* was opened with, and whether it is open.
FreeConn == [cat |-> NoCat, state |-> "free"]
NewConn(cat) == [cat |-> cat, state |-> "open"]

\* The id a new connection gets.
FreeIds(cs) == {i \in ConnIds : cs[i].state = "free"}
NextId(cs) == CHOOSE i \in FreeIds(cs) : \A j \in FreeIds(cs) : i <= j

\* A closed connection that neither the client nor a cursor refers to is
\* forgotten.
Forget(cs, held, threads) ==
    [i \in ConnIds |->
       IF /\ cs[i].state = "closed"
          /\ i # held
          /\ \A t \in Threads : threads[t].cursor # i
         THEN FreeConn ELSE cs[i]]

\* What the engine may answer SHOW CATALOGS with: one row per catalog, the
\* name in its first cell, in the engine's order.
CatalogRowSets == {<<<<"c1">>, <<"c2">>>>, <<<<"c2">>, <<"c1">>>>}

\* ------------------------------------------------------------------- Init
\* TrinoClient.__init__ : no connection, current catalog/schema copied from
\* the configuration.
Init ==
    /\ phase = "constructed"
    /\ conn = NoConn
    /\ default_catalog \in Catalogs \cup {NoCat}
    /\ default_schema \in Schemas \cup {NoSchema}
    /\ config_catalog = default_catalog
    /\ config_schema = default_schema
    /\ current_catalog = default_catalog
    /\ current_schema = default_schema
    /\ conns = [i \in ConnIds |-> FreeConn]
    /\ th = [t \in Threads |-> IdleThread]
    /\ serialized \in BOOLEAN
    /\ hist = NoHistory
    /\ main_conn = "unstarted"
    /\ healthy = FALSE
    /\ result = EmptyResult
    /\ payload = NoPayload
    /\ engine_catalogs \in CatalogRowSets
    /\ response = NoResponse
    /\ inspect_in = NoInspectInput
    /\ inspect_out = NoInspectOutput
    /\ schema_names \in {Schemas, MoreSchemas}

\* ------------------------------------------------- steps of a call
\* Mutant: get_catalogs passes a catalog to execute_query.
CatalogsCatalog_Named == "c2"

\* get_catalogs calls execute_query("SHOW CATALOGS") without a catalog.
CatalogsCatalog == NoCat

\* Mutant: cancel_query passes a catalog to execute_query.
CancelCatalog_Named == "c1"

\* cancel_query calls execute_query with the kill statement only: the
\* catalog argument keeps its default None.
CancelCatalog == NoCat

\* Mutant: the metadata accessors do not pass their catalog on.
ResourceCatalog_Omitted(c) == NoCat

\* get_schemas, get_tables and get_columns pass their catalog argument to
\* execute_query (catalog=catalog).
ResourceCatalog(c) == c

\* The arguments each handler passes to TrinoClient.execute_query.
CallArgs(op) ==
    CASE op = "execute" ->
           [sql : UserSql, catalog : Catalogs \cup {NoCat},
            schema : schema_names \cup {NoSchema}]
      [] op = "cancel" ->
           [sql : {"CALL kill_query"}, catalog : {CancelCatalog},
            schema : {NoSchema}]
      [] op = "catalogs" ->
           [sql : {"SHOW CATALOGS"}, catalog : {CatalogsCatalog},
            schema : {NoSchema}]
      [] op = "schemas" ->
           [sql : {"SHOW SCHEMAS"},
            catalog : {ResourceCatalog(c) : c \in Catalogs},
            schema : {NoSchema}]
      [] op = "tables" ->
           [sql : {"SHOW TABLES"},
            catalog : {ResourceCatalog(c) : c \in Catalogs},
            schema : Schemas]
      [] op = "query" ->
           [sql : UserSql, catalog : Catalogs, schema : Schemas \cup {NoSchema}]
      [] op \in {"columns", "table", "inspect"} ->
           [sql : {"DESCRIBE"},
            catalog : {ResourceCatalog(c) : c \in Catalogs},
            schema : Schemas]

\* cancel_query calls ensure_connection before execute_query.
FirstPc(op) == IF op = "cancel" THEN "ensure0" ELSE "check"
\* Stage 0 is cancel_query's own ensure_connection; stages 1, 2 and 3 are
\* the successive execute_query calls of one handler.
FirstStage(op) == IF op = "cancel" THEN 0 ELSE 1

\* The running call of thread t moves on with its record changed to r.
Goto(t, r) == th' = [th EXCEPT ![t] = r]

\* The call of thread t ends: it returns (res = "ok") or raises (res names
\* the exception).
Finish(t, r, res) ==
    th' = [th EXCEPT ![t] = [r EXCEPT !.pc = "done", !.res = res]]

\* A handler is invoked on thread t.
Begin(t) ==
    /\ phase = "running"
    /\ th[t].pc = "idle"
    /\ \E op \in Ops(t) : \E a \in CallArgs(op) :
         Goto(t, [IdleThread EXCEPT !.pc = FirstPc(op), !.op = op,
                                    !.stage = FirstStage(op),
                                    !.sql = a.sql, !.catalog = a.catalog,
                                    !.schema = a.schema,
                                    !.cur0 = Ser(current_catalog, NoCat),
                                    !.unbound0 = Ser(conn = NoConn, FALSE)])
    /\ UNCHANGED <<client, conns, hist, frame>>

\* get_table_details goes on to its statistics query once get_columns has
\* returned; inspect_table then goes on to its information_schema query, the
\* failure of the statistics query being caught in get_table_details.
MoreCalls(r) ==
    \/ r.op \in {"table", "inspect"} /\ r.stage = 1 /\ r.res = "ok"
    \/ r.op = "inspect" /\ r.stage = 2

\* The next execute_query call of the handler: the statistics query names
\* the catalog only, the information_schema query names nothing.
NextCall(r) ==
    [IdleThread EXCEPT !.pc = "check", !.op = r.op, !.stage = r.stage + 1,
                       !.sql = IF r.stage = 1 THEN "SELECT tables"
                                              ELSE "SELECT columns",
                       !.catalog = IF r.stage = 1 THEN r.catalog ELSE NoCat,
                       !.late = r.late,
                       !.cur0 = Ser(current_catalog, NoCat),
                       !.unbound0 = Ser(conn = NoConn, FALSE)]

Returns(keys) == [NoOutcome EXCEPT !.keys = keys]
Raises == [NoOutcome EXCEPT !.raised = TRUE]

\* Mutant: the execute_query tool lets a failed open through.
ExecuteToolOutcome_Raises(r) ==
    IF r.res = "ok"
      THEN Returns({"query_id", "columns", "row_count", "query_time_ms",
                    "preview_rows", "resource_path"})
      ELSE IF r.res = "connect_error" THEN Raises
      ELSE [Returns({"error", "query"}) EXCEPT !.query = r.sql]

\* Tool execute_query: the formatted result, or in the except branch
\* {"error": error_msg, "query": sql}.
ExecuteToolOutcome(r) ==
    IF r.res = "ok"
      THEN Returns({"query_id", "columns", "row_count", "query_time_ms",
                    "preview_rows", "resource_path"})
      ELSE [Returns({"error", "query"}) EXCEPT !.query = r.sql]

\* Tool cancel_query over TrinoClient.cancel_query: the client catches what
\* its execute_query raises and returns False; only what its own
\* ensure_connection raises reaches the tool's except branch.
CancelToolOutcome(r) ==
    IF r.stage = 0
      THEN [Returns({"success", "error", "query_id"}) EXCEPT !.success = "false"]
      ELSE [Returns({"success", "message"}) EXCEPT
              !.success = IF r.res = "ok" THEN "true" ELSE "false"]

\* Mutant: inspect_table without its outer except branch.
InspectToolOutcome_Raises(r) ==
    IF r.stage = 1
      THEN Raises
      ELSE Returns({"name", "catalog", "schema", "columns", "statistics"})

\* Tool inspect_table: the table details, or in the outer except branch
\* {"error", "catalog", "schema", "table"} when get_table_details raised.
InspectToolOutcome(r) ==
    IF r.stage = 1
      THEN Returns({"error", "catalog", "schema", "table"})
      ELSE Returns({"name", "catalog", "schema", "columns", "statistics"})

\* get_catalogs: [{"name": row[0]} for row in result.rows]
CatalogList(rows) == [i \in 1..Len(rows) |-> [name |-> rows[i][1]]]

\* The resource handlers return what the client's accessor returns and have
\* no except branch.
ResourceOutcome(r) ==
    IF r.op = "table"
      THEN IF r.stage = 1
             THEN Raises
             ELSE Returns({"name", "catalog", "schema", "columns",
                           "statistics"})
      ELSE IF r.res # "ok" THEN Raises
      ELSE IF r.op = "catalogs"
             THEN [Returns({"name"}) EXCEPT
                     !.list = CatalogList(engine_catalogs)]
             ELSE Returns({"name"})

\* /api/query: the results, or in the except branch a 400 response.
ApiOutcome(r) ==
    IF r.res = "ok"
      THEN [Returns({"success", "message", "results"}) EXCEPT
              !.success = "true"]
      ELSE [Returns({"success", "message"}) EXCEPT !.success = "false"]

HandlerOutcome(r) ==
    CASE r.op = "execute" -> ExecuteToolOutcome(r)
      [] r.op = "cancel" -> CancelToolOutcome(r)
      [] r.op = "inspect" -> InspectToolOutcome(r)
      [] r.op = "query" -> ApiOutcome(r)
      [] OTHER -> ResourceOutcome(r)

\* The client's call has ended: the handler issues its next call, or returns
\* to its caller (or raises) and its locals are gone.
Return(t) ==
    /\ th[t].pc = "done"
    /\ th' = [th EXCEPT ![t] =
                IF MoreCalls(th[t])
                  THEN NextCall(th[t])
                  ELSE [IdleThread EXCEPT !.pc = "returned",
                                          !.op = th[t].op,
                                          !.sql = th[t].sql,
                                          !.stage = th[t].stage,
                                          !.res = th[t].res,
                                          !.out = HandlerOutcome(th[t])]]
    /\ conns' = Forget(conns, conn, th')
    /\ UNCHANGED <<client, hist, frame>>

\* Mutant: the query-by-id resource answers with rows.
QueryResultOutcome_Rows(id) ==
    [Returns({"query_id", "rows"}) EXCEPT !.query_id = id]

\* get_query_result: {"query_id": query_id, "error": "Query results not
\* available. ..."}
QueryResultOutcome(id) ==
    [Returns({"query_id", "error"}) EXCEPT !.query_id = id,
                                          !.error = "not_available"]

\* A read of trino://query/{query_id}: the handler does not touch the client.
ReadQueryResult(t) ==
    /\ phase = "running"
    /\ t = "mcp"
    /\ th[t].pc = "idle"
    /\ \E id \in QueryIds :
         Goto(t, [IdleThread EXCEPT !.pc = "returned", !.op = "result",
                                    !.qid = id,
                                    !.out = QueryResultOutcome(id)])
    /\ UNCHANGED <<client, conns, hist, frame>>

\* get_catalog: {"name": catalog}; get_schema: {"name": schema,
\* "catalog": catalog}
RecordOutcome(op) ==
    IF op = "catalog" THEN Returns({"name"}) ELSE Returns({"name", "catalog"})

\* A read of a single catalog record or of a single schema record: the
\* handler builds the record from its arguments.
ReadRecord(t) ==
    /\ phase = "running"
    /\ t = "mcp"
    /\ th[t].pc = "idle"
    /\ \E op \in {"catalog", "schema"} :
         Goto(t, [IdleThread EXCEPT !.pc = "returned", !.op = op,
                                    !.out = RecordOutcome(op)])
    /\ UNCHANGED <<client, conns, hist, frame>>

\* The handler's caller has taken what the handler gave back.
Deliver(t) ==
    /\ th[t].pc = "returned"
    /\ th' = [th EXCEPT ![t] = IdleThread]
    /\ Record(IF th[t].op = "catalogs" /\ th[t].res = "ok"
                THEN [hist EXCEPT
                        !.listed = [seen |-> TRUE, list |-> th[t].out.list]]
                ELSE hist)
    /\ UNCHANGED <<client, conns, frame>>

\* Mutant: an omitted catalog falls back to the configured default.
UseCatalog_Default(t) ==
    IF th[t].catalog # NoCat THEN th[t].catalog ELSE default_catalog

\* use_catalog = catalog or self.current_catalog
UseCatalog(t) ==
    IF th[t].catalog # NoCat THEN th[t].catalog ELSE current_catalog

\* Mutant: every call on a connected client tears the connection down.
NeedsRebind_Always(t) == conn # NoConn

\* Mutant: the catalog comparison is dropped, the connection is kept.
NeedsRebind_Never(t) == FALSE

\* if self.conn and (use_catalog != self.current_catalog): self.disconnect()
NeedsRebind(t) == conn # NoConn /\ UseCatalog(t) # current_catalog

Check(t) ==
    /\ th[t].pc = "check"
    /\ Goto(t, [th[t] EXCEPT !.pc = IF NeedsRebind(t) THEN "close" ELSE "update",
                             !.stage = IF @ = 0 THEN 1 ELSE @,
                             !.use_catalog = UseCatalog(t)])
    /\ UNCHANGED <<client, conns, hist, frame>>

\* What a raising conn.close() does to the call: disconnect has no handler,
\* nor has execute_query around it, so the exception leaves the call before
\* self.conn = None is reached.
OnCloseFailure(t) ==
    Finish(t, [th[t] EXCEPT !.close_failed = TRUE], "close_error")

\* What a raising close may leave of a connection in state s: an open one is
\* released or not, a closed one stays closed.
LeftBy(s) == IF s = "open" THEN {"open", "closed"} ELSE {s}

\* disconnect(): if self.conn: self.conn.close().  A close that raises may or
\* may not have released the handle.
Close(t) ==
    /\ th[t].pc = "close"
    /\ IF conn = NoConn
         THEN /\ Goto(t, [th[t] EXCEPT !.pc = "update"])
              /\ UNCHANGED <<conns, hist>>
         ELSE \E ok \in BOOLEAN :
                IF ok
                  THEN /\ conns' = [conns EXCEPT ![conn].state = "closed"]
                       /\ Record(Closed(hist))
                       /\ Goto(t, [th[t] EXCEPT !.pc = "unset"])
                  ELSE /\ OnCloseFailure(t)
                       /\ \E left \in LeftBy(conns[conn].state) :
                            conns' = [conns EXCEPT ![conn].state = left]
                       /\ UNCHANGED hist
    /\ UNCHANGED <<client, frame>>

\* disconnect(): self.conn = None
Unset(t) ==
    /\ th[t].pc = "unset"
    /\ conn' = NoConn
    /\ Goto(t, [th[t] EXCEPT !.pc = "update"])
    /\ conns' = Forget(conns, NoConn, th)
    /\ UNCHANGED <<current_catalog, current_schema, config_catalog,
                   hist, frame>>

\* Mutant: the current catalog and schema are not taken over before the
\* connection is ensured.
Update_Deferred(t) ==
    /\ th[t].pc = "update"
    /\ current_catalog' = current_catalog
    /\ current_schema' = current_schema
    /\ config_catalog' =
         IF th[t].use_catalog # NoCat THEN th[t].use_catalog ELSE config_catalog
    /\ config_schema' = config_schema
    /\ Goto(t, [th[t] EXCEPT !.pc = "ensure"])
    /\ UNCHANGED <<conn, conns, hist, phase, default_catalog, default_schema,
                   serialized, process>>

\* Mutant: a call without a schema clears the current schema.
Update_ClearsSchema(t) ==
    /\ th[t].pc = "update"
    /\ current_catalog' = th[t].use_catalog
    /\ current_schema' = th[t].schema
    /\ config_catalog' =
         IF th[t].use_catalog # NoCat THEN th[t].use_catalog ELSE config_catalog
    /\ config_schema' = config_schema
    /\ Goto(t, [th[t] EXCEPT !.pc = "ensure"])
    /\ UNCHANGED <<conn, conns, hist, phase, default_catalog, default_schema,
                   serialized, process>>

\* Mutant: the requested schema is written into the configuration as well.
Update_ConfigSchema(t) ==
    /\ th[t].pc = "update"
    /\ current_catalog' = th[t].use_catalog
    /\ current_schema' =
         IF th[t].schema # NoSchema THEN th[t].schema ELSE current_schema
    /\ config_catalog' =
         IF th[t].use_catalog # NoCat THEN th[t].use_catalog ELSE config_catalog
    /\ config_schema' =
         IF th[t].schema # NoSchema THEN th[t].schema ELSE config_schema
    /\ Goto(t, [th[t] EXCEPT !.pc = "ensure"])
    /\ UNCHANGED <<conn, conns, hist, phase, default_catalog, default_schema,
                   serialized, process>>

\* self.current_catalog = use_catalog; if schema: self.current_schema = schema;
\* if use_catalog: self.config.catalog = use_catalog
Update(t) ==
    /\ th[t].pc = "update"
    /\ current_catalog' = th[t].use_catalog
    /\ current_schema' =
         IF th[t].schema # NoSchema THEN th[t].schema ELSE current_schema
    /\ config_catalog' =
         IF th[t].use_catalog # NoCat THEN th[t].use_catalog ELSE config_catalog
    /\ config_schema' = config_schema
    /\ Goto(t, [th[t] EXCEPT !.pc = "ensure"])
    /\ UNCHANGED <<conn, conns, hist, phase, default_catalog, default_schema,
                   serialized, process>>

\* ensure_connection(): if not self.conn: self.connect()
EnsureAt(t, here, open, next) ==
    /\ th[t].pc = here
    /\ Goto(t, [th[t] EXCEPT !.pc = IF conn = NoConn THEN open ELSE next])
    /\ UNCHANGED <<client, conns, hist, frame>>

\* Mutant: the connection is opened with the catalog the configuration was
\* constructed with.
ConnectionCatalog_Default == default_catalog

\* The catalog connection parameter: TrinoConfig.connection_params["catalog"].
ConnectionCatalog == config_catalog

\* Mutant: the handle is assigned before the open raises.
OnConnectFailure_Stale(t) ==
    /\ Finish(t, [th[t] EXCEPT !.tried_open = Ser(TRUE, FALSE)],
              "connect_error")
    /\ conn' = NextId(conns)

\* What a raising trino.dbapi.connect does to the call: self.conn is not
\* assigned and the exception leaves the call.
OnConnectFailure(t) ==
    /\ Finish(t, [th[t] EXCEPT !.tried_open = Ser(TRUE, FALSE)],
              "connect_error")
    /\ UNCHANGED conn

\* connect(): self.conn = trino.dbapi.connect(**conn_params); the open raises
\* or yields a handle bound to the configuration's catalog.
ConnectAt(t, here, next) ==
    /\ th[t].pc = here
    /\ FreeIds(conns) # {}
    /\ \E ok \in BOOLEAN :
         IF ok
           THEN /\ conns' = [conns EXCEPT
                               ![NextId(conns)] = NewConn(ConnectionCatalog)]
                /\ conn' = NextId(conns)
                /\ Record(Opened(hist))
                /\ Goto(t, [th[t] EXCEPT !.pc = next,
                                         !.tried_open = Ser(TRUE, FALSE)])
           ELSE /\ OnConnectFailure(t)
                /\ UNCHANGED <<conns, hist>>
    /\ UNCHANGED <<current_catalog, current_schema, config_catalog, frame>>

Ensure0(t) == EnsureAt(t, "ensure0", "connect0", "check")
Connect0(t) == ConnectAt(t, "connect0", "check")
Ensure(t) == EnsureAt(t, "ensure", "connect", "cursor")
Connect(t) == ConnectAt(t, "connect", "cursor")

\* cursor = self.conn.cursor()
Cursor(t) ==
    /\ th[t].pc = "cursor"
    /\ IF conn = NoConn
         THEN Finish(t, th[t], "attr_error")
         ELSE Goto(t, [th[t] EXCEPT !.pc = "use", !.cursor = conn])
    /\ UNCHANGED <<client, conns, hist, frame>>

\* Mutant: the scoping statement names the configured default catalog.
ScopeCatalog_Default(t) == default_catalog

\* The catalog named by the scoping statement:
\* cursor.execute(f"USE {self.current_catalog}.{self.current_schema}")
ScopeCatalog(t) == current_catalog

\* Mutant: the scoping statement names the configured default schema.
ScopeSchema_Default(t) == default_schema

\* The schema named by the scoping statement.
ScopeSchema(t) == current_schema

\* Mutant: the failure of the scoping statement is not caught.
OnSchemaFailure_Raises(t, r) ==
    Finish(t, [r EXCEPT !.use_failed = TRUE], "query_error")

\* except Exception as e: logger.warning(...) -- the call goes on to the query.
OnSchemaFailure(t, r) ==
    Goto(t, [r EXCEPT !.pc = "submit", !.use_failed = TRUE])

\* if self.current_schema: ... if self.current_catalog: cursor.execute(USE ...)
\* The statement is issued on the cursor's connection; it succeeds or raises.
UseSchema(t) ==
    /\ th[t].pc = "use"
    /\ IF current_schema # NoSchema /\ current_catalog # NoCat
         THEN \E ok \in BOOLEAN :
                LET r == [th[t] EXCEPT
                            !.use_named = Ser(ScopeCatalog(t), NoCat),
                            !.use_schema = Ser(ScopeSchema(t), NoSchema),
                            !.use_cat = Ser(conns[th[t].cursor].cat, NoCat)]
                IN  IF ok THEN Goto(t, [r EXCEPT !.pc = "submit"])
                          ELSE OnSchemaFailure(t, r)
         ELSE Goto(t, [th[t] EXCEPT !.pc = "submit"])
    /\ UNCHANGED <<client, conns, hist, frame>>

\* What the try block of execute_query does, in program order:
\* start_time = time.time(); cursor.execute(sql);
\* query_time = time.time() - start_time; cursor.stats.get("queryId");
\* cursor.description; cursor.fetchall()
SubmitEvents ==
    <<"timer_start", "submit", "timer_stop", "read_query_id", "read_columns",
      "fetch_rows">>
Position(e, events) == CHOOSE i \in 1..Len(events) : events[i] = e
\* The engine's error is raised by cursor.execute or by cursor.fetchall.
RaisingEvents == {"submit", "fetch_rows"}
EventsUpTo(e) == SubSeq(SubmitEvents, 1, Position(e, SubmitEvents))

\* Mutant: a failed submission is submitted again.
OnQueryFailure_Retries(t, r) == Goto(t, [r EXCEPT !.pc = "submit"])

\* except Exception as e: logger.error(...); raise
OnQueryFailure(t, r) == Finish(t, r, "query_error")

\* cursor.execute(sql); query id, columns and rows are read; the result is
\* returned, or the engine's error is re-raised.
Submit(t) ==
    /\ th[t].pc = "submit"
    /\ \E ok \in BOOLEAN : \E id \in QueryIds : \E e \in RaisingEvents :
         LET r == [th[t] EXCEPT !.sub_cat = conns[th[t].cursor].cat,
                                !.sub_sql = th[t].sql,
                                !.events = Ser(IF ok THEN SubmitEvents
                                                     ELSE EventsUpTo(e), <<>>),
                                !.subs = Cap2(@ + 1),
                                !.prev_req = hist.req,
                                !.prev_cat = hist.cat,
                                !.closes = hist.closes,
                                !.opens = hist.opens]
         IN  /\ Record([closes |-> 0, opens |-> 0, req |-> th[t].catalog,
                         cat |-> conns[th[t].cursor].cat,
                         qid |-> IF ok /\ th[t].op = "execute"
                                   THEN id ELSE hist.qid,
                         listed |-> hist.listed])
             /\ IF ok THEN Finish(t, r, "ok") ELSE OnQueryFailure(t, r)
    /\ UNCHANGED <<client, conns, frame>>

\* main / app_lifespan: trino_client.connect() right after construction; a
\* failure is logged and the process keeps running.
Startup ==
    /\ phase = "constructed"
    /\ phase' = "running"
    /\ \E ok \in BOOLEAN :
         IF ok
           THEN /\ conns' = [conns EXCEPT
                               ![NextId(conns)] = NewConn(ConnectionCatalog)]
                /\ conn' = NextId(conns)
                /\ Record(Opened(hist))
           ELSE UNCHANGED <<conn, conns, hist>>
    /\ UNCHANGED <<current_catalog, current_schema, config_catalog,
                   config_schema, default_catalog, default_schema, th,
                   serialized, process>>

Step(t) ==
    \/ Check(t) \/ Close(t) \/ Unset(t) \/ Update(t) \/ Ensure0(t) \/ Connect0(t) \/ Ensure(t) \/ Connect(t)
    \/ Cursor(t) \/ UseSchema(t) \/ Submit(t) \/ Return(t) \/ Deliver(t)

\* When serialized, a handler starts only when no call is running; otherwise
\* calls overlap on the two threads (no lock guards the client).
Next ==
    \/ Startup
    \/ \E t \in Threads : (serialized => AllIdle) /\ Begin(t)
    \/ \E t \in Threads : (serialized => AllIdle) /\ ReadQueryResult(t)
    \/ \E t \in Threads : (serialized => AllIdle) /\ ReadRecord(t)
    \/ \E t \in Threads : Step(t)

\* Handlers run one at a time.
InitSerial == Init /\ serialized /\ schema_names = Schemas
Spec == InitSerial /\ [][Next]_vars

\* Handlers overlap; the configuration names catalog c1 and no schema.
InitConc ==
    /\ Init
    /\ ~serialized
    /\ default_catalog = "c1"
    /\ default_schema = NoSchema
    /\ engine_catalogs = <<<<"c1">>, <<"c2">>>>
    /\ schema_names = Schemas
SpecConc == InitConc /\ [][Next]_vars

\* Handlers run one at a time and callers of execute_query name two
\* schemas; the configuration names no schema, and catalog c1 or none.
InitSession ==
    /\ Init
    /\ serialized
    /\ schema_names = MoreSchemas
    /\ default_catalog \in {NoCat, "c1"}
    /\ default_schema = NoSchema
    /\ engine_catalogs = <<<<"c1">>, <<"c2">>>>
SpecSession == InitSession /\ [][Next]_vars

\* ------------------------------------------------- process lifecycle
\* The process constructs two clients: one in main, one in app_lifespan.
\* From app_lifespan on, app_context_global names the second one, which is
\* the client the variables conn, current_catalog, ... describe here; of
\* main's client only its connection is followed.

\* main: trino_client = TrinoClient(config.trino); trino_client.connect().
\* When the open raises, app_context_global stays None.
MainStart ==
    /\ phase = "constructed"
    /\ main_conn = "unstarted"
    /\ \E ok \in BOOLEAN :
         /\ main_conn' = IF ok THEN "open" ELSE "none"
         /\ healthy' = ok
    /\ UNCHANGED <<client, conns, th, hist, phase, config_schema,
                   default_catalog, default_schema, serialized, result,
                   payload, engine_catalogs, shaping, schema_names>>

\* app_lifespan up to its yield: the new client becomes the one of
\* app_context_global and is connected; a failed open clears is_healthy.
LifespanStart ==
    /\ phase = "constructed"
    /\ main_conn # "unstarted"
    /\ phase' = "running"
    /\ \E ok \in BOOLEAN :
         IF ok
           THEN /\ conns' = [conns EXCEPT
                               ![NextId(conns)] = NewConn(ConnectionCatalog)]
                /\ conn' = NextId(conns)
                /\ Record(Opened(hist))
                /\ healthy' = TRUE
           ELSE /\ healthy' = FALSE
                /\ UNCHANGED <<conn, conns, hist>>
    /\ UNCHANGED <<current_catalog, current_schema, config_catalog,
                   config_schema, default_catalog, default_schema, th,
                   serialized, main_conn, result, payload,
                   engine_catalogs, shaping, schema_names>>

\* app_lifespan's finally block: if trino_client.conn:
\* trino_client.disconnect(); app_context.is_healthy = False.  A close that
\* raises leaves the block before either assignment.
Shutdown ==
    /\ phase = "running"
    /\ IF conn = NoConn
         THEN /\ phase' = "skipped"
              /\ healthy' = FALSE
              /\ UNCHANGED <<conn, conns, hist>>
         ELSE \E ok \in BOOLEAN :
                IF ok
                  THEN /\ conns' = Forget([conns EXCEPT ![conn].state = "closed"],
                                          NoConn, th)
                       /\ conn' = NoConn
                       /\ Record(Closed(hist))
                       /\ phase' = "closed"
                       /\ healthy' = FALSE
                  ELSE /\ \E left \in LeftBy(conns[conn].state) :
                            conns' = [conns EXCEPT ![conn].state = left]
                       /\ phase' = "aborted"
                       /\ UNCHANGED <<conn, hist, healthy>>
    /\ UNCHANGED <<current_catalog, current_schema, config_catalog,
                   config_schema, default_catalog, default_schema, th,
                   serialized, main_conn, result, payload,
                   engine_catalogs, shaping, schema_names>>

\* /api/query passes its gate: app_context_global is set and is_healthy.
Admit(t) ==
    /\ phase # "constructed"
    /\ healthy
    /\ th[t].pc = "idle"
    /\ Goto(t, [IdleThread EXCEPT !.pc = "admitted", !.op = "query"])
    /\ UNCHANGED <<client, conns, hist, frame>>

\* The 503 response of the gate: {"success": False, "message": ...}
ApiRejection == [Returns({"success", "message"}) EXCEPT !.success = "false"]

\* /api/query is turned away at its gate: app_context_global is not set or
\* its is_healthy is False.  The API thread runs from the end of main's
\* initialisation on.
Reject(t) ==
    /\ main_conn # "unstarted"
    /\ ~healthy
    /\ th[t].pc = "idle"
    /\ Goto(t, [IdleThread EXCEPT !.pc = "returned", !.op = "query",
                                  !.out = ApiRejection])
    /\ UNCHANGED <<client, conns, hist, frame>>

\* /api/query calls client.execute_query(query, request.catalog,
\* request.schema) on the client of app_context_global.
Enter(t) ==
    /\ th[t].pc = "admitted"
    /\ \E a \in CallArgs("query") :
         Goto(t, [IdleThread EXCEPT !.pc = "check", !.op = "query",
                                    !.sql = a.sql, !.catalog = a.catalog,
                                    !.schema = a.schema,
                                    !.late = (phase = "closed"),
                                    !.cur0 = Ser(current_catalog, NoCat),
                                    !.unbound0 = Ser(conn = NoConn, FALSE)])
    /\ UNCHANGED <<client, conns, hist, frame>>

\* The API thread beside startup and shutdown; the handlers of the protocol
\* runtime are followed in Spec and SpecConc.
NextLife ==
    \/ MainStart
    \/ LifespanStart
    \/ Shutdown
    \/ Admit("api")
    \/ Reject("api")
    \/ Enter("api")
    \/ Check("api") \/ Close("api") \/ Unset("api") \/ Update("api")
    \/ Ensure("api") \/ Connect("api") \/ Cursor("api") \/ UseSchema("api")
    \/ Submit("api") \/ Return("api") \/ Deliver("api")

SpecLife == InitSerial /\ [][NextLife]_vars

\* ------------------------------------------------- result formatting
\* max_preview_rows = min(20, len(result.rows))
PreviewCap == 20
Min(a, b) == IF a <= b THEN a ELSE b

\* Column names of a result; the engine may name two columns alike
\* (SELECT 1 AS a, 2 AS a).
ColNames == {"a", "b"}
ColumnLists == UNION {[1..n -> ColNames] : n \in 0..MaxCols}

\* The cell the engine returned in row i, column j.
Cell(i, j) == 10 * i + j
Rows(n, width) == [i \in 1..n |-> [j \in 1..width |-> Cell(i, j)]]

\* Mutant: the row count is taken from the preview.
RowCount_Capped(rows) == Min(PreviewCap, Len(rows))

\* row_count=len(rows)
RowCount(rows) == Len(rows)

\* TrinoQueryResult as execute_query builds it: without a description there
\* are neither columns nor rows.
QueryResult(columns, n) ==
    LET rows == IF columns = <<>> THEN <<>> ELSE Rows(n, Len(columns))
    IN  [columns |-> columns, rows |-> rows, row_count |-> RowCount(rows)]

Results == {QueryResult(c, n) : c \in ColumnLists, n \in 0..MaxRows}

\* row_dict = {}; for j, col in enumerate(columns): row_dict[col] = row[j]
\* A later column of the same name overwrites the earlier one.
RowDict(columns, row) ==
    [k \in {columns[j] : j \in 1..Len(columns)} |->
       row[CHOOSE j \in 1..Len(columns) :
             /\ columns[j] = k
             /\ \A i \in 1..Len(columns) : columns[i] = k => i <= j]]

\* formatted_result of the execute_query tool (the parts that depend on the
\* rows and columns).
FormatResult(r) ==
    [formatted |-> TRUE,
     columns |-> r.columns,
     row_count |-> r.row_count,
     preview_rows |-> [i \in 1..Min(PreviewCap, Len(r.rows)) |->
                         RowDict(r.columns, r.rows[i])]]

\* The execute_query tool formats the result the client returned.
Format ==
    /\ ~payload.formatted
    /\ payload' = FormatResult(result)
    /\ UNCHANGED <<client, conns, th, hist, phase, config_schema,
                   default_catalog, default_schema, serialized, main_conn,
                   healthy, result, engine_catalogs, shaping, schema_names>>

\* /api/query: formatted_rows holds one row_dict per row of the result, built
\* as the tool builds its preview rows but over all of result.rows.
ToRowObjects ==
    /\ ~response.shaped
    /\ response' = [shaped |-> TRUE,
                    rows |-> [k \in 1..Len(result.rows) |->
                                RowDict(result.columns, result.rows[k])],
                    row_count |-> result.row_count]
    /\ UNCHANGED <<client, conns, th, hist, phase, config_schema,
                   default_catalog, default_schema, serialized, main_conn,
                   healthy, result, payload, engine_catalogs, inspect_in,
                   inspect_out, schema_names>>

\* Any result the client can return, not yet formatted; the client is at
\* rest.
InitPreview ==
    /\ phase = "running"
    /\ conn = NoConn
    /\ default_catalog = NoCat
    /\ default_schema = NoSchema
    /\ config_catalog = default_catalog
    /\ config_schema = default_schema
    /\ current_catalog = default_catalog
    /\ current_schema = default_schema
    /\ conns = [i \in ConnIds |-> FreeConn]
    /\ th = [t \in Threads |-> IdleThread]
    /\ serialized = TRUE
    /\ hist = NoHistory
    /\ main_conn = "unstarted"
    /\ healthy = FALSE
    /\ result \in Results
    /\ payload = NoPayload
    /\ engine_catalogs = <<>>
    /\ response = NoResponse
    /\ inspect_in = NoInspectInput
    /\ inspect_out = NoInspectOutput
    /\ schema_names = Schemas

NextPreview == Format \/ ToRowObjects
SpecPreview == InitPreview /\ [][NextPreview]_vars

\* ------------------------------------------------- table metadata
MaxDescribed == 2
MaxInfoRows == 3

\* Python's None in a cell or a field.
Null == "null"

SeqsUpTo(S, n) == UNION {[1..k -> S] : k \in 0..n}

\* Rows of DESCRIBE catalog.schema.table: name, type and, from some engines,
\* a third cell.
ColumnNames == {"id", "job"}
DescribeRows ==
    {<<n, "BIGINT">> : n \in ColumnNames}
        \cup {<<n, "VARCHAR", "pk">> : n \in ColumnNames}
DescribeAnswers ==
    {[failed |-> TRUE, rows |-> <<>>]}
        \cup {[failed |-> FALSE, rows |-> r] :
                r \in SeqsUpTo(DescribeRows, MaxDescribed)}

\* Answers to SELECT * FROM catalog.information_schema.tables WHERE ...: the
\* query fails, returns no row, or returns the table's row.
StatsColumns == <<"TABLE_NAME", "TABLE_TYPE">>
StatsAnswers ==
    {[failed |-> TRUE, columns |-> <<>>, rows |-> <<>>],
     [failed |-> FALSE, columns |-> StatsColumns, rows |-> <<>>],
     [failed |-> FALSE, columns |-> StatsColumns,
      rows |-> <<<<"t", "BASE TABLE">>>>]}

\* Answers to SELECT column_name, data_type, is_nullable, column_default
\* FROM catalog.information_schema.columns WHERE ...: the query fails, or
\* returns rows in any order, with names the table may not have and with
\* repeated names.
InfoRows ==
    {<<n, d, "YES", Null>> : n \in ColumnNames \cup {"zz"}, d \in {"T1", "T2"}}
InfoAnswers ==
    {[failed |-> TRUE, rows |-> <<>>]}
        \cup {[failed |-> FALSE, rows |-> r] :
                r \in SeqsUpTo(InfoRows, MaxInfoRows)}

InspectInputs ==
    [catalog : Catalogs, schema : Schemas, table : {"t"},
     describe : DescribeAnswers, stats : StatsAnswers, info : InfoAnswers]

\* Mutant: get_columns never reports the third cell.
Extra_Never(row) == Null

\* "extra": row[2] if len(row) > 2 else None
Extra(row) == IF Len(row) > 2 THEN row[3] ELSE Null

\* get_columns: one dict per row of the describe result, in its order.
Columns(a) ==
    [i \in 1..Len(a.describe.rows) |->
       [name |-> a.describe.rows[i][1],
        type |-> a.describe.rows[i][2],
        extra |-> Extra(a.describe.rows[i]),
        catalog |-> a.catalog,
        schema |-> a.schema,
        table |-> a.table]]

\* str.lower() on the column names of information_schema.tables.
Lower(c) ==
    CASE c = "TABLE_NAME" -> "table_name"
      [] c = "TABLE_TYPE" -> "table_type"
      [] OTHER -> c

\* stats = {}
EmptyStats == [k \in {} |-> Null]

\* Mutant: a failed statistics query leaves a marker in the statistics.
OnStatsFailure_Marked == [error |-> "unsupported"]

\* except Exception: logger.warning(...); stats = {}
OnStatsFailure == EmptyStats

\* get_table_details, the statistics: stats = {}; if stats_result.rows:
\* stats[col.lower()] = row[i] for each column of the first row.
Statistics(ans) ==
    IF ans.failed THEN OnStatsFailure
    ELSE IF ans.rows = <<>> THEN EmptyStats
    ELSE [k \in {Lower(ans.columns[i]) : i \in 1..Len(ans.columns)} |->
            ans.rows[1][CHOOSE i \in 1..Len(ans.columns) :
                          /\ Lower(ans.columns[i]) = k
                          /\ \A j \in 1..Len(ans.columns) :
                               Lower(ans.columns[j]) = k => j <= i]]

\* get_table_details: the dict it returns once get_columns has returned.
TableDetails(a) ==
    [name |-> a.table, catalog |-> a.catalog, schema |-> a.schema,
     columns |-> Columns(a), statistics |-> Statistics(a.stats)]

\* Mutant: the last information-schema row of the column's name is applied.
MatchingRow_Last(col, rows) ==
    LET m == {i \in 1..Len(rows) : rows[i][1] = col.name}
    IN  IF m = {} THEN 0 ELSE CHOOSE i \in m : \A j \in m : j <= i

\* for row in info_schema_result.rows: if row[0] == col["name"]: ...; break
\* The index of the row that is applied to col, 0 when there is none.
MatchingRow(col, rows) ==
    LET m == {i \in 1..Len(rows) : rows[i][1] = col.name}
    IN  IF m = {} THEN 0 ELSE CHOOSE i \in m : \A j \in m : i <= j

EnrichmentKeys == {"data_type", "is_nullable", "default"}

\* enhanced_col = col.copy(); the matching row, if any, sets data_type,
\* is_nullable and default.
EnhancedCol(col, rows) ==
    LET i == MatchingRow(col, rows)
    IN  IF i = 0 THEN col
        ELSE [k \in DOMAIN col \cup EnrichmentKeys |->
                CASE k = "data_type" -> rows[i][2]
                  [] k = "is_nullable" -> rows[i][3]
                  [] k = "default" -> rows[i][4]
                  [] OTHER -> col[k]]

\* Mutant: a failed enrichment query turns the result into the error payload.
OnEnrichmentFailure_ErrorShape(details) ==
    [error |-> "enrichment failed", catalog |-> details.catalog,
     schema |-> details.schema, table |-> details.name]

\* Mutant: a failed enrichment query empties the statistics.
OnEnrichmentFailure_EmptyStats(details) ==
    [details EXCEPT !.statistics = EmptyStats]

\* except Exception: logger.warning(...), then return table_details
OnEnrichmentFailure(details) == details

\* inspect_table once get_table_details has returned.
Enriched(a) ==
    IF a.info.failed THEN OnEnrichmentFailure(TableDetails(a))
    ELSE [TableDetails(a) EXCEPT
            !.columns = [i \in 1..Len(@) |-> EnhancedCol(@[i], a.info.rows)]]

\* The list_columns resource: client.get_columns(catalog, schema, table); a
\* failed DESCRIBE raises out of it.
GetColumns ==
    /\ inspect_out.op = "none"
    /\ inspect_out' =
         IF inspect_in.describe.failed
           THEN [op |-> "columns", raised |-> TRUE, value |-> <<>>]
           ELSE [op |-> "columns", raised |-> FALSE,
                 value |-> Columns(inspect_in)]
    /\ UNCHANGED <<client, conns, th, hist, phase, config_schema,
                   default_catalog, default_schema, serialized, main_conn,
                   healthy, result, payload, engine_catalogs, response,
                   inspect_in, schema_names>>

\* The get_table resource: client.get_table_details(catalog, schema, table).
GetTableDetails ==
    /\ inspect_out.op = "none"
    /\ inspect_out' =
         IF inspect_in.describe.failed
           THEN [op |-> "table", raised |-> TRUE, value |-> <<>>]
           ELSE [op |-> "table", raised |-> FALSE,
                 value |-> TableDetails(inspect_in)]
    /\ UNCHANGED <<client, conns, th, hist, phase, config_schema,
                   default_catalog, default_schema, serialized, main_conn,
                   healthy, result, payload, engine_catalogs, response,
                   inspect_in, schema_names>>

\* The inspect_table tool: a failure of get_table_details becomes the error
\* payload, a failure of the enrichment query is logged only.
InspectTable ==
    /\ inspect_out.op = "none"
    /\ inspect_out' =
         IF inspect_in.describe.failed
           THEN [op |-> "inspect", raised |-> FALSE,
                 value |-> [error |-> "describe failed",
                            catalog |-> inspect_in.catalog,
                            schema |-> inspect_in.schema,
                            table |-> inspect_in.table]]
           ELSE [op |-> "inspect", raised |-> FALSE,
                 value |-> Enriched(inspect_in)]
    /\ UNCHANGED <<client, conns, th, hist, phase, config_schema,
                   default_catalog, default_schema, serialized, main_conn,
                   healthy, result, payload, engine_catalogs, response,
                   inspect_in, schema_names>>

\* Any table and any answers of the engine about it; no handler has
\* returned; the client is at rest.
InitInspect ==
    /\ phase = "running"
    /\ conn = NoConn
    /\ default_catalog = NoCat
    /\ default_schema = NoSchema
    /\ config_catalog = default_catalog
    /\ config_schema = default_schema
    /\ current_catalog = default_catalog
    /\ current_schema = default_schema
    /\ conns = [i \in ConnIds |-> FreeConn]
    /\ th = [t \in Threads |-> IdleThread]
    /\ serialized = TRUE
    /\ hist = NoHistory
    /\ main_conn = "unstarted"
    /\ healthy = FALSE
    /\ result = EmptyResult
    /\ payload = NoPayload
    /\ engine_catalogs = <<>>
    /\ response = NoResponse
    /\ inspect_in \in InspectInputs
    /\ inspect_out = NoInspectOutput
    /\ schema_names = Schemas

NextInspect == GetColumns \/ GetTableDetails \/ InspectTable
SpecInspect == InitInspect /\ [][NextInspect]_vars

\* ------------------------------------------------------------- properties
AtRest == \A t \in Threads : th[t].pc \in {"idle", "done", "returned"}
Submitted(t) == th[t].pc = "done" /\ th[t].sub_cat # NoSubmission
Bound == conn # NoConn /\ conns[conn].state = "open"

\* C1: when a call naming catalog c2 submits its SQL and the previous
\* submission came from a call naming another catalog c1, exactly one
\* connection was closed and exactly one opened between the two submissions,
\* and the SQL went to a connection opened with c2.
C1_OneRebindBetweenCatalogs ==
    \A t \in Threads :
        ( /\ Submitted(t)
          /\ th[t].catalog \in Catalogs
          /\ th[t].prev_req \in Catalogs
          /\ th[t].prev_req # th[t].catalog )
        => /\ th[t].closes = 1
           /\ th[t].opens = 1
           /\ th[t].sub_cat = th[t].catalog

C1_Witness ==
    \E t \in Threads :
        /\ Submitted(t)
        /\ th[t].res = "ok"
        /\ th[t].catalog = "c2"
        /\ th[t].prev_req = "c1"
        /\ th[t].closes = 1

\* C2: whenever a connection is open, the catalog it was opened with is the
\* client's current catalog, and between calls it is the catalog of the
\* connection the last SQL was submitted on.
C2_BoundCatalogIsCurrent ==
    Bound =>
        /\ conns[conn].cat = current_catalog
        /\ (AtRest /\ hist.cat # NoSubmission) => hist.cat = conns[conn].cat

C2_Witness ==
    /\ AtRest
    /\ Bound
    /\ hist.cat \in Catalogs
    /\ hist.cat # default_catalog
    /\ \E t \in Threads : th[t].res = "query_error"

\* C3: of two overlapping calls that name different catalogs, each submits
\* its SQL on a connection opened with the catalog it named itself.
C3_OwnCatalogUnderInterleaving ==
    \A t, u \in Threads :
        ( /\ Submitted(t)
          /\ th[u].pc # "idle"
          /\ th[t].catalog \in Catalogs
          /\ th[u].catalog \in Catalogs
          /\ th[u].catalog # th[t].catalog )
        => th[t].sub_cat = th[t].catalog

\* C4: at most one call at a time is between its catalog check and the end
\* of its result read.
C4_MutualExclusion ==
    \A t, u \in Threads :
        (th[t].pc \notin {"idle", "done"} /\ th[u].pc \notin {"idle", "done"})
        => t = u

\* C5 as stated: a call that omits the catalog submits on a connection opened
\* with the catalog the configuration was constructed with.
C5_OmittedCatalogIsDefault ==
    \A t \in Threads :
        (Submitted(t) /\ th[t].catalog = NoCat)
        => th[t].sub_cat = default_catalog

\* C5 amended: a call that omits the catalog submits on a connection opened
\* with the client's current catalog as it was when the call began.
C5_OmittedCatalogIsCurrent ==
    \A t \in Threads :
        (Submitted(t) /\ th[t].catalog = NoCat)
        => /\ th[t].sub_cat = th[t].cur0
           /\ current_catalog = th[t].cur0

C5_Witness ==
    \E t \in Threads :
        /\ Submitted(t)
        /\ th[t].catalog = NoCat
        /\ th[t].cur0 \in Catalogs
        /\ th[t].cur0 # default_catalog

\* C6 as stated: the configuration's catalog and schema keep the values they
\* had at construction.
C6_ConfigDefaultsKept ==
    /\ config_catalog = default_catalog
    /\ config_schema = default_schema

\* C6 amended: the configuration's schema keeps its construction value, and
\* the configuration's catalog follows the client's current catalog.
C6_ConfigSchemaKeptCatalogFollows ==
    /\ config_schema = default_schema
    /\ config_catalog = current_catalog

C6_Witness ==
    /\ config_catalog # default_catalog
    /\ current_schema # default_schema
    /\ config_schema = default_schema
    /\ AtRest

\* C7: every scoping statement names the catalog its connection was opened
\* with, and SQL reaches a connection of another catalog than the previous
\* submission's only after a close and an open.
C7_CatalogFixedAtOpen ==
    \A t \in Threads :
        /\ th[t].use_named # NoCat => th[t].use_named = th[t].use_cat
        /\ ( /\ Submitted(t)
             /\ th[t].prev_cat # NoSubmission
             /\ th[t].prev_cat # th[t].sub_cat )
           => (th[t].closes >= 1 /\ th[t].opens >= 1)

C7_Witness ==
    \E t \in Threads :
        /\ Submitted(t)
        /\ th[t].use_named = "c2"
        /\ th[t].prev_cat = "c1"
        /\ th[t].res = "ok"

\* C8: a call whose close of the old connection raised still submits its SQL
\* on a connection opened with the requested catalog.
C8_CloseFailureTolerated ==
    \A t \in Threads :
        (th[t].pc = "done" /\ th[t].close_failed)
        => /\ th[t].res \in {"ok", "query_error"}
           /\ th[t].sub_cat = th[t].catalog

\* C9: a call whose scoping statement raised goes on to submit the caller's
\* SQL on the cursor's connection and ends with the query's own outcome.
C9_SchemaFailureTolerated ==
    \A t \in Threads :
        th[t].use_failed =>
            \/ th[t].pc = "submit"
            \/ /\ th[t].pc = "done"
               /\ th[t].res \in {"ok", "query_error"}
               /\ th[t].sub_sql = th[t].sql
               /\ th[t].sub_cat = conns[th[t].cursor].cat

C9_Witness ==
    \E t \in Threads :
        /\ th[t].use_failed
        /\ th[t].pc = "done"
        /\ th[t].res = "ok"

\* C10: a call whose open raised has submitted nothing and leaves the client
\* without a connection; a call that finds the client without a connection
\* opens one before it creates its cursor, and that cursor is on an open
\* connection.
C10_OpenFailureLeavesUnbound ==
    \A t \in Threads :
        /\ (th[t].pc = "done" /\ th[t].res = "connect_error")
           => /\ th[t].sub_cat = NoSubmission
              /\ th[t].use_named = NoCat
              /\ conn = NoConn
        /\ (th[t].unbound0 /\ th[t].pc \in {"cursor", "use", "submit"})
           => th[t].tried_open
        /\ (th[t].unbound0 /\ th[t].pc \in {"use", "submit"})
           => conns[th[t].cursor].state = "open"

C10_Witness ==
    \E t \in Threads :
        /\ th[t].pc = "submit"
        /\ th[t].unbound0
        /\ th[t].tried_open
        /\ th[t].catalog # NoCat
        /\ th[t].catalog # default_catalog

\* C14: one execute_query call of the client submits the caller's SQL at most
\* once: exactly once when it got a cursor on a connection, never when the
\* open raised; a failed submission ends the call with the engine's error
\* instead of being submitted again, and the text submitted is the sql
\* argument.
C14_NoQueryRetry ==
    \A t \in Threads :
        /\ th[t].subs <= 1
        /\ th[t].pc = "done" =>
             /\ th[t].cursor # NoConn => th[t].subs = 1
             /\ th[t].res = "connect_error" => th[t].subs = 0
             /\ th[t].subs = 1 <=> th[t].res \in {"ok", "query_error"}
             /\ th[t].subs = 1 => th[t].sub_sql = th[t].sql

C14_Witness ==
    \E t \in Threads :
        /\ th[t].pc = "done"
        /\ th[t].op = "execute"
        /\ th[t].res = "query_error"
        /\ th[t].subs = 1
        /\ th[t].sub_sql = th[t].sql

\* What the handler on thread t has just given back to its caller.
Returned(t, ops) == th[t].pc = "returned" /\ th[t].op \in ops

\* C17: the execute_query tool never raises; what it returns has the key
\* "error" exactly when the client's call raised, then together with "query"
\* holding the sql argument and with none of the success keys, and otherwise
\* has exactly the six success keys.
C17_DiscriminatedPayload ==
    \A t \in Threads :
        Returned(t, {"execute"}) =>
            /\ ~th[t].out.raised
            /\ "error" \in th[t].out.keys <=> th[t].res # "ok"
            /\ th[t].res # "ok" =>
                 /\ th[t].out.keys = {"error", "query"}
                 /\ th[t].out.query = th[t].sql
            /\ th[t].res = "ok" =>
                 th[t].out.keys = {"query_id", "columns", "row_count",
                                   "query_time_ms", "preview_rows",
                                   "resource_path"}

C17_Witness ==
    \E t \in Threads :
        /\ Returned(t, {"execute"})
        /\ th[t].res = "connect_error"
        /\ th[t].out.keys = {"error", "query"}
        /\ th[t].out.query \in UserSql

\* C18: whatever call of the client fails (open, close during a rebind,
\* scoping statement, submission or read of the result), the tools
\* execute_query, cancel_query and inspect_table return an object and do not
\* raise.
C18_ToolsExceptionSafe ==
    \A t \in Threads :
        Returned(t, ToolOps) =>
            /\ ~th[t].out.raised
            /\ th[t].out.keys # {}

C18_Witness ==
    \E t \in Threads :
        /\ Returned(t, {"inspect"})
        /\ th[t].res = "close_error"
        /\ "error" \in th[t].out.keys

\* C19: when the engine's error ends the client's call made for a resource
\* read, the resource handler does not raise and returns an object whose only
\* key is "error".
C19_ResourceErrorIsPayload ==
    \A t \in Threads :
        (Returned(t, ResourceOps) /\ th[t].res = "query_error") =>
            /\ ~th[t].out.raised
            /\ th[t].out.keys = {"error"}

\* C20: when the engine rejects the kill statement, the cancel_query tool
\* does not raise and returns success false together with the keys "error"
\* and "query_id".
C20_CancelRejectionPayload ==
    \A t \in Threads :
        (Returned(t, {"cancel"}) /\ th[t].res = "query_error") =>
            /\ ~th[t].out.raised
            /\ th[t].out.success = "false"
            /\ th[t].out.keys = {"success", "error", "query_id"}

\* C15: for every result of the client, preview_rows of the execute_query tool
\* has min(20, number of rows) entries, entry i is row i of the result, its
\* keys are exactly the result's columns (as many keys as columns), and the
\* cell of column j is stored under the name of column j.
C15_PreviewRowsKeyedByColumns ==
    payload.formatted =>
        /\ Len(payload.preview_rows) = Min(20, Len(result.rows))
        /\ \A i \in 1..Len(payload.preview_rows) :
             /\ DOMAIN payload.preview_rows[i] =
                  {result.columns[j] : j \in 1..Len(result.columns)}
             /\ Cardinality(DOMAIN payload.preview_rows[i]) =
                  Len(result.columns)
             /\ \A j \in 1..Len(result.columns) :
                  payload.preview_rows[i][result.columns[j]] =
                      result.rows[i][j]

\* C16: row_count of the tool's payload is the number of rows of the whole
\* result and columns is the whole column list; row_count is never below the
\* number of preview rows and is above it exactly when the result has more
\* than 20 rows.
C16_TruncationOnlyInPreview ==
    payload.formatted =>
        /\ payload.row_count = Len(result.rows)
        /\ payload.columns = result.columns
        /\ payload.row_count >= Len(payload.preview_rows)
        /\ payload.row_count > Len(payload.preview_rows)
             <=> Len(result.rows) > 20

C16_Witness ==
    /\ payload.formatted
    /\ Len(result.rows) = 21
    /\ payload.row_count = 21
    /\ Len(payload.preview_rows) = 20
    /\ Len(payload.columns) = 2

\* C11: a call of the client that begins after the shutdown path has closed
\* the connection opens no new connection.
C11_ClosedIsTerminal ==
    \A t \in Threads :
        th[t].late => ~(th[t].tried_open /\ th[t].res # "connect_error")

\* Connections open in the whole process: those of the client of
\* app_lifespan and that of main's client.
OpenConnections ==
    Cardinality({i \in ConnIds : conns[i].state = "open"})
        + (IF main_conn = "open" THEN 1 ELSE 0)

\* C12: once the shutdown path has run, neither main's client nor the client
\* of app_lifespan holds an open connection.
C12_ShutdownClosesAll ==
    phase \in {"closed", "skipped", "aborted"} =>
        /\ main_conn # "open"
        /\ ~Bound

\* C13: at every moment at most one connection is open in the process.
C13_AtMostOneOpen == OpenConnections <= 1

\* C21: no step of a cancel_query call changes the current catalog or the
\* current schema; while a connection is open the call keeps it and neither
\* closes nor opens any connection; when the client holds no connection the
\* one the call opens is bound to the current catalog.
C21_CancelNeverRebinds ==
    [][\A t \in Threads :
          (th[t].op = "cancel" /\ th'[t].op = "cancel") =>
              /\ current_catalog' = current_catalog
              /\ current_schema' = current_schema
              /\ Bound =>
                   /\ conn' = conn
                   /\ \A i \in ConnIds :
                        conns'[i].state = "open" <=> conns[i].state = "open"
              /\ (conn = NoConn /\ conn' # NoConn) =>
                   conns'[conn'].cat = current_catalog]_vars

C21_Witness ==
    \E t \in Threads :
        /\ th[t].pc = "done"
        /\ th[t].op = "cancel"
        /\ th[t].res = "ok"
        /\ ~th[t].unbound0
        /\ Bound
        /\ current_catalog # default_catalog
        /\ th[t].sub_cat = current_catalog

\* C22: a read of the query-by-id resource, for any id and in any state of
\* the client, returns at once the "not available" payload with that id and
\* no other key, and changes neither the client, nor any connection, nor the
\* history of submissions.
C22_QueryResultIsStub ==
    [][\A t \in Threads :
          (th[t].op # "result" /\ th'[t].op = "result") =>
              /\ th'[t].pc = "returned"
              /\ th'[t].out = [NoOutcome EXCEPT
                                 !.keys = {"query_id", "error"},
                                 !.query_id = th'[t].qid,
                                 !.error = "not_available"]
              /\ UNCHANGED <<client, conns, hist>>]_vars

C22_Witness ==
    \E t \in Threads :
        /\ Returned(t, {"result"})
        /\ th[t].qid = hist.qid
        /\ th[t].out.query_id = "q2"
        /\ Bound

Before(a, b, events) == Position(a, events) < Position(b, events)

\* C29: in a call that returns a result the timer is started before the SQL
\* is submitted, the query id and the columns are read after the submission,
\* the rows are fetched after that, and the timer is stopped last.
C29_TimerCoversFetch ==
    \A t \in Threads :
        (th[t].pc = "done" /\ th[t].res = "ok" /\ th[t].events # <<>>) =>
            /\ Before("timer_start", "submit", th[t].events)
            /\ Before("submit", "read_query_id", th[t].events)
            /\ Before("read_query_id", "fetch_rows", th[t].events)
            /\ Before("read_columns", "fetch_rows", th[t].events)
            /\ Before("fetch_rows", "timer_stop", th[t].events)

Established ==
    {"check", "close", "unset", "update", "ensure0", "connect0", "ensure",
     "connect", "cursor"}

\* C30: no scoping statement is issued before the call has its cursor on the
\* connection; when the caller's SQL is about to be or has been submitted
\* and a schema and a catalog are in effect, the scoping statement has been
\* issued on the cursor's connection and names the catalog that connection
\* was opened with (the requested one, if one was requested) and the schema
\* in effect; when no schema or no catalog is in effect none was issued.
C30_ScopingAfterBindBeforeSql ==
    \A t \in Threads :
        /\ th[t].pc \in Established => th[t].use_named = NoCat
        /\ (th[t].pc = "submit" \/ Submitted(t)) =>
             IF current_schema # NoSchema /\ current_catalog # NoCat
               THEN /\ th[t].use_named = conns[th[t].cursor].cat
                    /\ th[t].use_cat = conns[th[t].cursor].cat
                    /\ th[t].use_schema = current_schema
                    /\ th[t].catalog # NoCat =>
                         th[t].use_named = th[t].catalog
                    /\ th[t].schema # NoSchema =>
                         th[t].use_schema = th[t].schema
               ELSE /\ th[t].use_named = NoCat
                    /\ th[t].use_schema = NoSchema

C30_Witness ==
    \E t \in Threads :
        /\ th[t].pc = "submit"
        /\ th[t].tried_open
        /\ th[t].schema = "s1"
        /\ th[t].use_schema = "s1"
        /\ th[t].use_named = "c2"
        /\ default_schema = NoSchema

C28_AllRowsKeyedByColumns ==
    response.shaped =>
        /\ Len(response.rows) = result.row_count
        /\ response.row_count = Len(result.rows)
        /\ \A k \in 1..Len(response.rows) :
             \A i \in 1..Len(result.columns) :
                 response.rows[k][result.columns[i]] = result.rows[k][i]

\* C27: get_columns returns one record per row of the describe result, in
\* its order, with name, type, extra (the third cell, or null when the row
\* has two cells) and the catalog, schema and table it was called with.
C27_ColumnsFollowDescribe ==
    (inspect_out.op = "columns" /\ ~inspect_out.raised) =>
        LET rows == inspect_in.describe.rows
            cols == inspect_out.value
        IN  /\ Len(cols) = Len(rows)
            /\ \A i \in 1..Len(rows) :
                 /\ DOMAIN cols[i] =
                      {"name", "type", "extra", "catalog", "schema", "table"}
                 /\ cols[i].name = rows[i][1]
                 /\ cols[i].type = rows[i][2]
                 /\ cols[i].extra =
                      (IF Len(rows[i]) > 2 THEN rows[i][3] ELSE Null)
                 /\ cols[i].catalog = inspect_in.catalog
                 /\ cols[i].schema = inspect_in.schema
                 /\ cols[i].table = inspect_in.table

C27_Witness ==
    /\ inspect_out.op = "columns"
    /\ ~inspect_out.raised
    /\ Len(inspect_out.value) = 2
    /\ inspect_out.value[1].name = "job"
    /\ inspect_out.value[1].extra = "pk"
    /\ inspect_out.value[2].name = "id"
    /\ inspect_out.value[2].extra = Null

\* The six fields get_columns gives a column.
ColumnKeys == {"name", "type", "extra", "catalog", "schema", "table"}

\* The statistics query failed or returned no row.
StatsUnsupported == inspect_in.stats.failed \/ inspect_in.stats.rows = <<>>

\* A table handler has returned the details of the table.
Detailed(ops) ==
    /\ inspect_out.op \in ops
    /\ ~inspect_out.raised
    /\ ~inspect_in.describe.failed

\* C24 as stated: without statistics support both get_table_details and
\* inspect_table return name, catalog, schema, columns and statistics, with
\* the arguments as name, catalog and schema, with columns equal to what
\* get_columns returns, and with empty statistics.
C24_ColumnsEqualListColumns ==
    (Detailed({"table", "inspect"}) /\ StatsUnsupported) =>
        /\ DOMAIN inspect_out.value =
             {"name", "catalog", "schema", "columns", "statistics"}
        /\ inspect_out.value.name = inspect_in.table
        /\ inspect_out.value.catalog = inspect_in.catalog
        /\ inspect_out.value.schema = inspect_in.schema
        /\ inspect_out.value.columns = Columns(inspect_in)
        /\ DOMAIN inspect_out.value.statistics = {}

\* C24: without statistics support both handlers return name, catalog,
\* schema, columns and statistics, with the arguments as name, catalog and
\* schema and with empty statistics; the columns are those of get_columns
\* in describe order, equal to them from get_table_details, and from
\* inspect_table equal to them on the six fields of get_columns.
C24_NoStatisticsStillDetails ==
    (Detailed({"table", "inspect"}) /\ StatsUnsupported) =>
        /\ DOMAIN inspect_out.value =
             {"name", "catalog", "schema", "columns", "statistics"}
        /\ inspect_out.value.name = inspect_in.table
        /\ inspect_out.value.catalog = inspect_in.catalog
        /\ inspect_out.value.schema = inspect_in.schema
        /\ DOMAIN inspect_out.value.statistics = {}
        /\ Len(inspect_out.value.columns) = Len(inspect_in.describe.rows)
        /\ \A i \in 1..Len(inspect_in.describe.rows) :
             \A k \in ColumnKeys :
                 inspect_out.value.columns[i][k] = Columns(inspect_in)[i][k]
        /\ inspect_out.op = "table" =>
             inspect_out.value.columns = Columns(inspect_in)

C24_Witness ==
    /\ Detailed({"inspect"})
    /\ inspect_in.stats.failed
    /\ ~inspect_in.info.failed
    /\ Len(inspect_out.value.columns) = 2
    /\ inspect_out.value.columns[1].name = "id"
    /\ inspect_out.value.columns[2].name = "job"
    /\ DOMAIN inspect_out.value.columns[2] # ColumnKeys

\* The information-schema rows that carry the name of describe row i.
Matches(i) ==
    {j \in 1..Len(inspect_in.info.rows) :
        inspect_in.info.rows[j][1] = inspect_in.describe.rows[i][1]}

\* C25: inspect_table returns as many columns as get_columns, in its order;
\* a column whose name no information-schema row carries is the get_columns
\* record unchanged, and any other column is that record with data_type,
\* is_nullable and default taken from the first row that carries its name.
C25_EnrichmentByFirstNameMatch ==
    (Detailed({"inspect"}) /\ ~inspect_in.info.failed) =>
        LET cols == inspect_out.value.columns
            info == inspect_in.info.rows
        IN  /\ Len(cols) = Len(inspect_in.describe.rows)
            /\ \A i \in 1..Len(cols) :
                 /\ \A k \in ColumnKeys :
                      cols[i][k] = Columns(inspect_in)[i][k]
                 /\ IF Matches(i) = {}
                      THEN DOMAIN cols[i] = ColumnKeys
                      ELSE \E f \in Matches(i) :
                             /\ \A j \in Matches(i) : f <= j
                             /\ DOMAIN cols[i] =
                                  ColumnKeys \cup EnrichmentKeys
                             /\ cols[i].data_type = info[f][2]
                             /\ cols[i].is_nullable = info[f][3]
                             /\ cols[i].default = info[f][4]

C25_Witness ==
    /\ Detailed({"inspect"})
    /\ ~inspect_in.info.failed
    /\ Len(inspect_in.describe.rows) = 2
    /\ inspect_in.describe.rows[1][1] = "id"
    /\ inspect_in.describe.rows[2][1] = "job"
    /\ inspect_in.info.rows =
         <<<<"job", "T1", "YES", Null>>, <<"zz", "T2", "YES", Null>>,
           <<"job", "T2", "YES", Null>>>>
    /\ DOMAIN inspect_out.value.columns[1] = ColumnKeys
    /\ inspect_out.value.columns[2].data_type = "T1"

\* C23 as stated: when the enrichment query fails, inspect_table returns
\* the columns of get_columns without data_type, is_nullable or default,
\* and empty statistics.
C23_EnrichmentFailureEmptiesStatistics ==
    (Detailed({"inspect"}) /\ inspect_in.info.failed) =>
        /\ "error" \notin DOMAIN inspect_out.value
        /\ inspect_out.value.columns = Columns(inspect_in)
        /\ \A i \in 1..Len(inspect_out.value.columns) :
             DOMAIN inspect_out.value.columns[i] \cap EnrichmentKeys = {}
        /\ DOMAIN inspect_out.value.statistics = {}

\* C23: when the enrichment query fails, inspect_table returns the columns
\* of get_columns without data_type, is_nullable or default, and the
\* statistics get_table_details read: the first row of the statistics
\* query keyed by lower-cased column name, empty only without statistics
\* support.
C23_EnrichmentFailureKeepsDetails ==
    (Detailed({"inspect"}) /\ inspect_in.info.failed) =>
        /\ "error" \notin DOMAIN inspect_out.value
        /\ inspect_out.value.columns = Columns(inspect_in)
        /\ \A i \in 1..Len(inspect_out.value.columns) :
             DOMAIN inspect_out.value.columns[i] \cap EnrichmentKeys = {}
        /\ IF StatsUnsupported
             THEN DOMAIN inspect_out.value.statistics = {}
             ELSE /\ DOMAIN inspect_out.value.statistics =
                       {"table_name", "table_type"}
                  /\ inspect_out.value.statistics.table_name =
                       inspect_in.stats.rows[1][1]
                  /\ inspect_out.value.statistics.table_type =
                       inspect_in.stats.rows[1][2]

C23_Witness ==
    /\ Detailed({"inspect"})
    /\ inspect_in.info.failed
    /\ ~StatsUnsupported
    /\ Len(inspect_out.value.columns) = 2
    /\ inspect_out.value.statistics.table_type = "BASE TABLE"

\* C31: inspect_table never raises; what it returns is the error payload
\* {error, catalog, schema, table} with its three arguments exactly when the
\* describe step failed, and otherwise the table details, whether or not the
\* statistics query or the enrichment query failed.
C31_ErrorShapeIffDescribeFails ==
    inspect_out.op = "inspect" =>
        /\ ~inspect_out.raised
        /\ "error" \in DOMAIN inspect_out.value <=> inspect_in.describe.failed
        /\ IF inspect_in.describe.failed
             THEN /\ DOMAIN inspect_out.value =
                       {"error", "catalog", "schema", "table"}
                  /\ inspect_out.value.catalog = inspect_in.catalog
                  /\ inspect_out.value.schema = inspect_in.schema
                  /\ inspect_out.value.table = inspect_in.table
             ELSE DOMAIN inspect_out.value =
                    {"name", "catalog", "schema", "columns", "statistics"}

C31_Witness ==
    /\ inspect_out.op = "inspect"
    /\ ~inspect_in.describe.failed
    /\ inspect_in.stats.failed
    /\ inspect_in.info.failed
    /\ Len(inspect_in.describe.rows) = 2
    /\ "error" \notin DOMAIN inspect_out.value

\* A call of the client is running on thread t.
InCall(t) == th[t].pc \notin {"idle", "returned"}
\* The step opens a connection, closes one, or makes the client let go of
\* the one it holds.
Opens == \E i \in ConnIds : conns[i].state # "open" /\ conns'[i].state = "open"
Closes == \E i \in ConnIds : conns[i].state = "open" /\ conns'[i].state # "open"
Drops == conn # NoConn /\ conn' # conn

\* C32: a connection is opened only while the client holds none; the
\* client's connection is closed or let go only by a call that names a
\* catalog other than the one the connection was opened with, or by
\* shutdown; no step of a call that omits the catalog or names the catalog
\* of the held connection opens, closes or replaces a connection; and a
\* query the engine rejects leaves the client holding the connection the
\* query ran on.
C32_ConnectionLifecycle ==
    /\ [][ /\ Opens => conn = NoConn
           /\ (Closes \/ Drops) =>
                \/ phase = "running" /\ phase' # phase
                \/ /\ conn # NoConn
                   /\ \E t \in Threads :
                        /\ InCall(t)
                        /\ th[t].catalog # NoCat
                        /\ th[t].catalog # conns[conn].cat
           /\ \A t \in Threads :
                ( /\ InCall(t)
                  /\ conn # NoConn
                  /\ \/ th[t].catalog = NoCat
                     \/ th[t].catalog = conns[conn].cat )
                => (~Opens /\ ~Closes /\ conn' = conn)
           /\ \A t \in Threads :
                ( /\ th[t].pc = "submit"
                  /\ th'[t].pc = "done"
                  /\ th'[t].res = "query_error" )
                => (conn' = conn /\ conns' = conns)
         ]_vars
    /\ [](\A t \in Threads :
            (th[t].pc = "done" /\ th[t].res = "query_error")
            => (conn # NoConn /\ conn = th[t].cursor))

C32_Witness ==
    \E t \in Threads :
        /\ th[t].pc = "done"
        /\ th[t].op = "execute"
        /\ th[t].res = "query_error"
        /\ th[t].catalog = NoCat
        /\ ~th[t].unbound0
        /\ Bound
        /\ conn = th[t].cursor
        /\ current_catalog # default_catalog
        /\ th[t].prev_cat = th[t].sub_cat
        /\ th[t].closes = 0
        /\ th[t].opens = 0

\* The call on thread t is past its scoping step.
Scoped(t) == th[t].pc = "submit" \/ Submitted(t)

\* C33 as stated: the current schema changes only to the schema a call
\* supplies, and every call that supplies none while a current schema is
\* set issues the scoping statement for the current schema.
C33_ScopingAlwaysIssued ==
    /\ [][current_schema' # current_schema =>
            \E t \in Threads :
                /\ th[t].pc = "update"
                /\ th[t].schema # NoSchema
                /\ current_schema' = th[t].schema]_vars
    /\ [](\A t \in Threads :
            ( /\ Scoped(t)
              /\ th[t].schema = NoSchema
              /\ current_schema # NoSchema )
            => /\ th[t].use_schema = current_schema
               /\ th[t].use_named = th[t].use_catalog)

\* C33: the current schema changes only in a call that supplies a schema,
\* and then to that schema, so it is never cleared; every call that supplies
\* none while a current schema is set, and that names a catalog or finds a
\* current one, issues the scoping statement for the current schema
\* qualified with the call's catalog, once it holds a cursor.
C33_StickySchema ==
    /\ [][current_schema' # current_schema =>
            \E t \in Threads :
                /\ th[t].pc = "update"
                /\ th[t].schema # NoSchema
                /\ current_schema' = th[t].schema]_vars
    /\ [](\A t \in Threads :
            ( /\ Scoped(t)
              /\ th[t].schema = NoSchema
              /\ current_schema # NoSchema
              /\ th[t].use_catalog # NoCat )
            => /\ th[t].use_schema = current_schema
               /\ th[t].use_named = th[t].use_catalog)

C33_Witness ==
    \E t \in Threads :
        /\ Submitted(t)
        /\ th[t].op = "schemas"
        /\ th[t].catalog = "c2"
        /\ th[t].closes = 1
        /\ th[t].prev_cat = "c1"
        /\ current_schema = "s2"
        /\ th[t].use_schema = "s2"
        /\ th[t].use_named = "c2"

\* The call on thread t has ended because the open raised or the engine
\* rejected the query.
Failed(t) ==
    th[t].pc = "done" /\ th[t].res \in {"connect_error", "query_error"}

\* C34: when a call that names catalog c and schema s ends because the open
\* raised or the query was rejected, the current catalog is c, the current
\* schema is s and the configuration's catalog is c; and a call that omits
\* both runs on a connection opened with the catalog that was current when
\* it began, and scopes to that catalog and the current schema.
C34_FailedCallMovesSession ==
    \A t \in Threads :
        /\ ( /\ Failed(t)
             /\ th[t].catalog # NoCat
             /\ th[t].schema # NoSchema )
           => /\ current_catalog = th[t].catalog
              /\ current_schema = th[t].schema
              /\ config_catalog = th[t].catalog
        /\ ( /\ Scoped(t)
             /\ th[t].catalog = NoCat
             /\ th[t].schema = NoSchema
             /\ th[t].cur0 # NoCat
             /\ current_schema # NoSchema )
           => /\ conns[th[t].cursor].cat = th[t].cur0
              /\ th[t].use_named = th[t].cur0
              /\ th[t].use_schema = current_schema

C34_Witness ==
    \E t \in Threads :
        /\ Failed(t)
        /\ th[t].res = "connect_error"
        /\ th[t].op = "execute"
        /\ th[t].catalog = "c2"
        /\ th[t].schema = "s2"
        /\ default_catalog = "c1"
        /\ ~th[t].unbound0
        /\ current_catalog = "c2"
        /\ current_schema = "s2"
        /\ conn = NoConn

\* C35: a call creates its cursor only while the client holds an open
\* connection, and issues its scoping statement and submits its SQL only
\* while the connection of its cursor is open.
C35_NoUseOfAbsentOrClosedHandle ==
    [][\A t \in Threads :
          /\ (th[t].pc = "cursor" /\ th'[t].pc # "cursor")
             => (conn # NoConn /\ conns[conn].state = "open")
          /\ ( /\ th[t].pc = "use"
               /\ th'[t].pc # "use"
               /\ current_schema # NoSchema
               /\ current_catalog # NoCat )
             => conns[th[t].cursor].state = "open"
          /\ (th[t].pc = "submit" /\ th'[t].pc # "submit")
             => conns[th[t].cursor].state = "open"
      ]_vars

\* C36: every open connection is the one the client holds.
C36_NoLeakedConnection ==
    \A i \in ConnIds : conns[i].state = "open" => conn = i

\* The metadata reads that run a statement for a catalog of their path.
BindingReads == {"schemas", "tables", "columns", "table"}

\* C37: a read of the schema list, the table list, the column list or the
\* table details passes the catalog of its path to the client: once its
\* statement is submitted the client holds an open connection of that
\* catalog, which is the current catalog, the current schema is the schema
\* of the path when there is one, and a connection of another catalog was
\* closed first; an execute_query tool call that omits catalog and schema
\* runs on a connection of the catalog that was current when it began and
\* scopes to it and to the current schema; a read of a single catalog or
\* schema record changes neither the client nor any connection and submits
\* nothing.
C37_ResourceReadsRebind ==
    /\ [](\A t \in Threads :
            /\ (Submitted(t) /\ th[t].op \in BindingReads) =>
                 /\ th[t].catalog \in Catalogs
                 /\ current_catalog = th[t].catalog
                 /\ th[t].sub_cat = th[t].catalog
                 /\ conn = th[t].cursor
                 /\ conns[conn].cat = th[t].catalog
                 /\ th[t].schema # NoSchema => current_schema = th[t].schema
                 /\ ( /\ th[t].prev_cat # NoSubmission
                      /\ th[t].prev_cat # th[t].catalog )
                    => (th[t].closes >= 1 /\ th[t].opens >= 1)
            /\ ( /\ Scoped(t)
                 /\ th[t].op = "execute"
                 /\ th[t].catalog = NoCat
                 /\ th[t].schema = NoSchema
                 /\ th[t].cur0 # NoCat
                 /\ current_schema # NoSchema )
               => /\ conns[th[t].cursor].cat = th[t].cur0
                  /\ th[t].use_named = th[t].cur0
                  /\ th[t].use_schema = current_schema
            /\ Returned(t, {"catalog", "schema"}) =>
                 (~th[t].out.raised /\ th[t].subs = 0))
    /\ [][\A t \in Threads :
            (th[t].op \in {"catalog", "schema"}
                \/ th'[t].op \in {"catalog", "schema"})
            => UNCHANGED <<client, conns, hist>>]_vars

C37_Witness ==
    \E t \in Threads :
        /\ Submitted(t)
        /\ th[t].op = "tables"
        /\ th[t].res = "ok"
        /\ th[t].catalog = "c2"
        /\ th[t].schema = "s1"
        /\ th[t].prev_cat = "c1"
        /\ th[t].closes = 1
        /\ current_catalog = "c2"
        /\ current_schema = "s1"
        /\ Bound

\* C38: /api/query never raises and answers a failed query with
\* {success: false, message}; while no context is set or the context is not
\* healthy it answers with a failure without entering the client and without
\* changing the client or a connection; the context is not healthy after an
\* initialisation whose open raised and after the shutdown path has run;
\* and is_healthy turns true only when a context is created.
C38_ApiGate ==
    /\ [](\A t \in Threads :
            Returned(t, {"query"}) =>
                /\ ~th[t].out.raised
                /\ th[t].res # "ok" =>
                     /\ th[t].out.keys = {"success", "message"}
                     /\ th[t].out.success = "false")
    /\ [](phase \in {"skipped", "closed", "aborted"} => ~healthy)
    /\ [][ /\ \A t \in Threads :
                (th[t].pc = "idle" /\ th'[t].pc # "idle" /\ ~healthy) =>
                    /\ th'[t].pc = "returned"
                    /\ th'[t].out.success = "false"
                    /\ th'[t].subs = 0
                    /\ UNCHANGED <<client, conns>>
           /\ (phase = "constructed" /\ phase' = "running" /\ conn' = NoConn)
                => ~healthy'
           /\ (~healthy /\ healthy') => phase = "constructed"
         ]_vars

====
